---------------------------- MODULE Spec2Model ----------------------------
(***************************************************************************)
(* The pseudo-random number generator of the math library                  *)
(* (src/src/lib/math.c): the Tausworthe step function, the seeder, and the *)
(* two library functions math.random and math.randomseed, each bound to    *)
(* the RandomState userdata of its own module instance by an upvalue.      *)
(*                                                                         *)
(* A 64-bit word (uint64_t, or the bit pattern of a double) is the set of  *)
(* the positions of its 1-bits, a subset of 0..63: shifts, masks and xor   *)
(* are set operations, and sums, differences and products are computed     *)
(* bit by bit, so no machine integer of the checker limits the width.      *)
(* Doubles are IEEE-754 binary64 with round-to-nearest-even, each          *)
(* operation rounded on its own (x86-64 SSE2, the platform of the build).  *)
(***************************************************************************)
EXTENDS Integers, Sequences, FiniteSets, TLC

(***************************************************************************)
(* Words as sets of bit positions.                                         *)
(***************************************************************************)
Min(S) == CHOOSE x \in S : \A y \in S : x <= y
Max(S) == 0 - Min({0 - x : x \in S})

\* The element of a one-element set.  Value({e(x) : x \in {v}}) is e(v), with
\* v evaluated once however often e uses it.
Value(S) == CHOOSE x \in S : TRUE

\* The bits of a small non-negative integer (below 2^30).
BitsOf(n) == {b \in 0..29 : (n \div (2^b)) % 2 = 1}

RECURSIVE ValOf(_)
\* The integer a small word stands for.
ValOf(a) == IF a = {} THEN 0
            ELSE LET b == Min(a) IN 2^b + ValOf(a \ {b})

Xor(a, b) == (a \ b) \cup (b \ a)
And(a, b) == a \cap b
Or(a, b) == a \cup b
Shl(a, n) == {b + n : b \in a}
Shr(a, n) == {b - n : b \in {x \in a : x >= n}}

\* uint64_t keeps the low 64 bits.
Trunc64(a) == {b \in a : b < 64}
Shl64(a, n) == Trunc64(Shl(a, n))

RECURSIVE Add(_, _)
\* a + b: xor is the sum without carries, and the carries go one place up.
Add(a, b) == IF b = {} THEN a ELSE Add(Xor(a, b), Shl(And(a, b), 1))

RECURSIVE Sub(_, _)
\* a - b for a >= b: the borrows go one place up.
Sub(a, b) == IF b = {} THEN a ELSE Sub(Xor(a, b), Shl(b \ a, 1))

\* The five limbs of a < 2^65 in base 2^13, as integers.
Limbs(a) == [k \in 0..4 |-> ValOf(Shr({b \in a : b < 13 * (k + 1)}, 13 * k))] @@ <<>>

RECURSIVE Column(_, _, _, _)
\* The sum of the limb products la[i] * lb[k-i], i from i0 to 4.
Column(la, lb, k, i0) ==
  IF i0 > 4 THEN 0
  ELSE (IF k - i0 \in 0..4 THEN la[i0] * lb[k - i0] ELSE 0)
       + Column(la, lb, k, i0 + 1)

RECURSIVE MulFrom(_, _, _, _)
\* Columns k.. of the schoolbook product, with the carry into column k.
MulFrom(la, lb, k, carry) ==
  IF k > 9 THEN {}
  ELSE Value({Shl(BitsOf(t % 8192), 13 * k)
                \cup MulFrom(la, lb, k + 1, t \div 8192)
              : t \in {Column(la, lb, k, 0) + carry}})

\* a * b for a, b < 2^65.
Mul(a, b) == Value({MulFrom(la, lb, 0, 0) : la \in {Limbs(a)}, lb \in {Limbs(b)}})

\* a < b, unsigned: the highest bit they differ in is b's.
Less(a, b) == a # b /\ Max(Xor(a, b)) \in b

Add64(a, b) == Trunc64(Add(a, b))

\* A word from its hexadecimal digits, most significant first.
Hex(h) == UNION {Shl(BitsOf(h[i]), 4 * (Len(h) - i)) : i \in 1..Len(h)}

\* (uint64_t)(int64_t)-1
AllOnes == 0..63

(***************************************************************************)
(* IEEE-754 binary64 on bit patterns (FpConv: the union of a double and a  *)
(* uint64_t reads the same 8 bytes either way, so a double IS its word).   *)
(***************************************************************************)
FpNeg(u) == 63 \in u
FpExp(u) == ValOf(Shr(u \ {63}, 52))
FpFrac(u) == {b \in u : b < 52}
IsNaN(u) == FpExp(u) = 2047 /\ FpFrac(u) # {}
SignWord(neg) == IF neg THEN {63} ELSE {}
FpInf(neg) == Shl(BitsOf(2047), 52) \cup SignWord(neg)
\* The NaN an invalid operation produces on x86-64 (negative quiet NaN).
DefaultNaN == FpInf(TRUE) \cup {51}
\* A NaN operand comes back quieted.
Quiet(u) == u \cup {51}

\* A double taken apart: a NaN, an infinity, or (-1)^neg * sig * 2^ex
\* (exponent field 0: a subnormal or zero, without the implicit bit).
Unpack(u) == Value({
  [neg |-> 63 \in u,
   nan |-> e = 2047 /\ FpFrac(u) # {},
   inf |-> e = 2047 /\ FpFrac(u) = {},
   sig |-> IF e = 0 THEN FpFrac(u) ELSE FpFrac(u) \cup {52},
   ex |-> IF e = 0 THEN 0 - 1074 ELSE e - 1075]
  : e \in {FpExp(u)}})

\* The double nearest to (-1)^neg * sig * 2^ex, ties to even.
RoundPack(neg, sig0, ex) == Value({
  IF sig = {} THEN SignWord(neg)
  ELSE LET top == Max(sig)
           q == IF top + ex - 52 > 0 - 1074 THEN top + ex - 52 ELSE 0 - 1074
           sh == q - ex
           kept == IF sh > 0 THEN Shr(sig, sh) ELSE Shl(sig, 0 - sh)
           half == sh > 0 /\ (sh - 1) \in sig
           sticky == sh > 0 /\ \E b \in sig : b < sh - 1
           up == half /\ (sticky \/ 0 \in kept)
           r == IF up THEN Add(kept, {0}) ELSE kept
           carry == 53 \in r
           r2 == IF carry THEN Shr(r, 1) ELSE r
           q2 == IF carry THEN q + 1 ELSE q
           be == IF 52 \in r2 THEN q2 + 1075 ELSE 0
       IN IF be >= 2047 THEN FpInf(neg)
          ELSE (r2 \ {52}) \cup Shl(BitsOf(be), 52) \cup SignWord(neg)
  : sig \in {sig0}})

\* a * b
FMul(a, b) == Value({
  IF x.nan THEN Quiet(a)
  ELSE IF y.nan THEN Quiet(b)
  ELSE IF (x.inf /\ y.sig = {}) \/ (x.sig = {} /\ y.inf) THEN DefaultNaN
  ELSE IF x.inf \/ y.inf THEN FpInf(x.neg # y.neg)
  ELSE RoundPack(x.neg # y.neg, Mul(x.sig, y.sig), x.ex + y.ex)
  : x \in {Unpack(a)}, y \in {Unpack(b)}})

\* x + y for finite x and y, taken apart.
AddFinite(x, y) ==
  IF x.sig = {} /\ y.sig = {} THEN SignWord(x.neg /\ y.neg)
  ELSE LET gap == x.ex - y.ex
           \* An operand 2^56 times smaller only decides the rounding: it is
           \* kept as one sticky bit three places below the larger one.
           far == gap >= 56 \/ gap <= 0 - 56
           e == IF far THEN (IF gap > 0 THEN x.ex ELSE y.ex) - 3
                ELSE IF gap < 0 THEN x.ex ELSE y.ex
           Sticky(s) == IF s = {} THEN {} ELSE {0}
           m == IF far THEN (IF gap > 0 THEN Shl(x.sig, 3) ELSE Sticky(x.sig))
                ELSE Shl(x.sig, x.ex - e)
           n == IF far THEN (IF gap > 0 THEN Sticky(y.sig) ELSE Shl(y.sig, 3))
                ELSE Shl(y.sig, y.ex - e)
       IN IF x.neg = y.neg THEN RoundPack(x.neg, Add(m, n), e)
          ELSE IF m = n THEN {}
          ELSE IF Less(n, m) THEN RoundPack(x.neg, Sub(m, n), e)
          ELSE RoundPack(y.neg, Sub(n, m), e)

\* a + b
FAdd(a, b) == Value({
  IF x.nan THEN Quiet(a)
  ELSE IF y.nan THEN Quiet(b)
  ELSE IF x.inf /\ y.inf /\ x.neg # y.neg THEN DefaultNaN
  ELSE IF x.inf THEN a
  ELSE IF y.inf THEN b
  ELSE AddFinite(x, y)
  : x \in {Unpack(a)}, y \in {Unpack(b)}})

\* a - b
FSub(a, b) == Value({
  IF x.nan THEN Quiet(a)
  ELSE IF y.nan THEN Quiet(b)
  ELSE IF x.inf /\ y.inf /\ x.neg = y.neg THEN DefaultNaN
  ELSE IF x.inf THEN a
  ELSE IF y.inf THEN FpInf(~y.neg)
  ELSE AddFinite(x, [y EXCEPT !.neg = ~@])
  : x \in {Unpack(a)}, y \in {Unpack(b)}})

\* floor(a)
FFloor(a) == Value({
  IF x.nan THEN Quiet(a)
  ELSE IF x.inf \/ x.sig = {} \/ x.ex >= 0 THEN a
  ELSE LET sh == 0 - x.ex
           ip == Shr(x.sig, sh)
           frac == \E b \in x.sig : b < sh
       IN IF x.neg
          THEN RoundPack(TRUE, IF frac THEN Add(ip, {0}) ELSE ip, 0)
          ELSE RoundPack(FALSE, ip, 0)
  : x \in {Unpack(a)}})

\* The double of a small integer.
FromInt(n) == RoundPack(n < 0, BitsOf(IF n < 0 THEN 0 - n ELSE n), 0)

(***************************************************************************)
(* struct RandomState and the Tausworthe generator.                        *)
(*                                                                         *)
(* A RandomState is a record: gen (lanes 0..3) and valid are the fields of *)
(* the struct; the other fields are history the code does not keep:        *)
(*   by, d   how the lanes were last assigned ("none": never, "random":    *)
(*           the lazy initialization, "randomseed") and from which double; *)
(*   n       calls of lj_math_random_step since the lanes were assigned;   *)
(*   j       calls of math.random since the lanes were assigned;           *)
(*   ret     the word the last lj_math_random_step returned;               *)
(*   cs, ci  calls of lj_math_random_step and of random_init made by the   *)
(*           library call in progress (math_random and math_randomseed     *)
(*           clear them on entry).                                         *)
(***************************************************************************)
Lanes == 0..3

\* z = rs->gen[i];
\* z = (((z<<q)^z) >> (k-s)) ^ ((z&((uint64_t)(int64_t)-1 << (64-k)))<<s);
TW223_GEN(rs, i, k, q, s) ==
  LET z == rs.gen[i]
  IN Xor(Shr(Xor(Shl64(z, q), z), k - s),
         Shl64(And(z, Shl64(AllOnes, 64 - k)), s))

\* U64x(000fffff,ffffffff) and U64x(3ff00000,00000000)
MantissaMask == Hex(<<0,0,0,15,15,15,15,15,15,15,15,15,15,15,15,15>>)
ExponentOne == Hex(<<3,15,15,0,0,0,0,0,0,0,0,0,0,0,0,0>>)

\* The four generators updated, TW223_GEN(0, 63, 31, 18) and so on.  (Each
\* reads and writes its own lane only: the order of the four is immaterial.)
TW223(rs) == (0 :> TW223_GEN(rs, 0, 63, 31, 18)) @@
             (1 :> TW223_GEN(rs, 1, 58, 19, 28)) @@
             (2 :> TW223_GEN(rs, 2, 55, 24, 7)) @@
             (3 :> TW223_GEN(rs, 3, 47, 21, 8))

\* r ^= z for the four new states z, from r = 0.
RunningXor(z) == Xor(Xor(Xor(Xor({}, z[0]), z[1]), z[2]), z[3])

\* A variant of lj_math_random_step that returns the running xor as it is,
\* neither masked nor given the exponent of 1.0.
lj_math_random_step_unmasked(rs0) == Value({Value({
  [rs EXCEPT !.gen = z, !.ret = RunningXor(z), !.n = @ + 1, !.cs = @ + 1]
  : z \in {TW223(rs)}}) : rs \in {rs0}})

\* Updates the four generators and returns (in ret) the running xor of the
\* new states with the exponent of 1.0 spliced in.
lj_math_random_step(rs0) == Value({Value({
  [rs EXCEPT !.gen = z,
             !.ret = Or(And(RunningXor(z), MantissaMask), ExponentOne),
             !.n = @ + 1, !.cs = @ + 1]
  : z \in {TW223(rs)}}) : rs \in {rs0}})

RECURSIVE Steps(_, _)
\* for (i = 0; i < count; i++) lj_math_random_step(rs);
Steps(rs, count) ==
  IF count = 0 THEN rs
  ELSE Value({Steps(nx, count - 1) : nx \in {lj_math_random_step(rs)}})

\* 3.14159265358979323846 and 2.7182818284590452354 as doubles.
FpPi == Hex(<<4,0,0,9,2,1,15,11,5,4,4,4,2,13,1,8>>)
FpE == Hex(<<4,0,0,5,11,15,0,10,8,11,1,4,5,7,6,9>>)
\* 64-k[i] as four 8 bit constants: 0x11090601.
SeedShifts == 285803009
WarmupSteps == 10

\* A variant of EnsureNonZero without the fix.
EnsureNonZero_absent(u, m) == u

\* if (conv.u < m) conv.u += m;  /* Ensure k[i] MSB of gen[i] are non-zero. */
EnsureNonZero(u, m) == IF Less(u, m) THEN Add64(u, m) ELSE u

RECURSIVE SeedLoop_three(_, _, _, _)
\* A variant of SeedLoop that stops one lane early: lane 3 keeps what it held.
SeedLoop_three(gen, r, d, i) ==
  IF i >= 3 THEN gen
  ELSE Value({SeedLoop_three([gen EXCEPT ![i] = EnsureNonZero(u, Shl({0}, r % 256))],
                             r \div 256, u, i + 1)
              : u \in {FAdd(FMul(d, FpPi), FpE)}})

RECURSIVE SeedLoop(_, _, _, _)
\* Rounds i.. of the loop of random_init over the lanes, entered with the
\* lanes gen, the shifts r and the double d:
\*   m = 1u << (r&255); r >>= 8; conv.d = d = d * pi + e;
\*   if (conv.u < m) conv.u += m; gen[i] = conv.u;
SeedLoop(gen, r, d, i) ==
  IF i >= 4 THEN gen
  ELSE Value({SeedLoop([gen EXCEPT ![i] = EnsureNonZero(u, Shl({0}, r % 256))],
                       r \div 256, u, i + 1)
              : u \in {FAdd(FMul(d, FpPi), FpE)}})

\* A variant of random_init with nine warm-up steps.
random_init_nine(rs, d, by) ==
  Steps([rs EXCEPT !.gen = SeedLoop(rs.gen, SeedShifts, d, 0), !.valid = TRUE,
                   !.by = by, !.d = d, !.n = 0, !.j = 0, !.ci = @ + 1],
        WarmupSteps - 1)

\* A variant of random_init that marks the state valid only if the seed is
\* not a NaN.
random_init_nan(rs, d, by) ==
  Steps([rs EXCEPT !.gen = SeedLoop(rs.gen, SeedShifts, d, 0),
                   !.valid = ~IsNaN(d),
                   !.by = by, !.d = d, !.n = 0, !.j = 0, !.ci = @ + 1],
        WarmupSteps)

\* conv.d = d = d * pi + e and the fix for each lane, rs->valid = 1, then the
\* warm-up steps.
random_init(rs, d, by) ==
  Steps([rs EXCEPT !.gen = SeedLoop(rs.gen, SeedShifts, d, 0), !.valid = TRUE,
                   !.by = by, !.d = d, !.n = 0, !.j = 0, !.ci = @ + 1],
        WarmupSteps)

(***************************************************************************)
(* Lua values and the argument extractor uj_lib_checknum (uj_lib.h; not in *)
(* the source subset): a number, or a string that converts to a number,    *)
(* yields the number; anything else, a missing argument included, raises   *)
(* an argument type error.  A string is the sequence of its characters;    *)
(* the strings of the model are decimal numerals or not numbers at all.    *)
(***************************************************************************)
Num(w) == [type |-> "number", n |-> w, s |-> <<>>]
Str(s) == [type |-> "string", n |-> {}, s |-> s]

Digit == ("0" :> 0) @@ ("1" :> 1) @@ ("2" :> 2) @@ ("3" :> 3) @@ ("4" :> 4) @@
         ("5" :> 5) @@ ("6" :> 6) @@ ("7" :> 7) @@ ("8" :> 8) @@ ("9" :> 9)

RECURSIVE Decimal(_)
Decimal(s) == IF s = <<>> THEN 0
              ELSE 10 * Decimal(SubSeq(s, 1, Len(s) - 1)) + Digit[s[Len(s)]]

IsNumeral(s) == s # <<>> /\ \A k \in 1..Len(s) : s[k] \in DOMAIN Digit

\* [ok |-> TRUE, n |-> the double] or [ok |-> FALSE, ...]: the error is raised.
uj_lib_checknum(args, narg) ==
  IF narg > Len(args) THEN [ok |-> FALSE, n |-> {}]
  ELSE IF args[narg].type = "number" THEN [ok |-> TRUE, n |-> args[narg].n]
  ELSE IF args[narg].type = "string" /\ IsNumeral(args[narg].s)
       THEN [ok |-> TRUE, n |-> FromInt(Decimal(args[narg].s))]
  ELSE [ok |-> FALSE, n |-> {}]

(***************************************************************************)
(* The two library functions, as functions of the RandomState their        *)
(* upvalue holds and of the arguments on the stack: the state they leave,  *)
(* whether they raised, and the value they pushed.                         *)
(***************************************************************************)
FpZero == {}
FpOne == FromInt(1)
NoValue == {64}

Raised(rs) == [rs |-> rs, err |-> "ArgTypeError", val |-> NoValue]
Returned(rs, v) == [rs |-> rs, err |-> "none", val |-> v]

\* A variant of LazySeed: 1.0.
LazySeed_one == FromInt(1)

\* The double random_init is given on the first use of a state not valid.
LazySeed == FpZero

\* if (LJ_UNLIKELY(!rs->valid)) random_init(rs, 0.0);
\* u.u64 = lj_math_random_step(rs);
Advance(rs0) ==
  LET rs1 == IF ~rs0.valid THEN random_init(rs0, LazySeed, "random") ELSE rs0
  IN [lj_math_random_step(rs1) EXCEPT !.j = @ + 1]

\* A variant of Shape that shapes u.d, in [1.0, 2.0), as it is.
Shape_raw(rs, args) ==
  LET n == Len(args)
      d == rs.ret
      r1 == uj_lib_checknum(args, 1)
      r2 == uj_lib_checknum(args, 2)
  IN IF n > 0
     THEN IF ~r1.ok THEN Raised(rs)
          ELSE IF n = 1
               THEN Returned(rs, FAdd(FFloor(FMul(d, r1.n)), FpOne))
               ELSE IF ~r2.ok THEN Raised(rs)
                    ELSE Returned(rs, FAdd(FFloor(FMul(d,
                                      FAdd(FSub(r2.n, r1.n), FpOne))), r1.n))
     ELSE Returned(rs, d)

\* d = u.d - 1.0; and the rest of math_random: the arguments are taken off
\* the stack, one after the other, only here.
Shape(rs, args) ==
  LET n == Len(args)
      d == FSub(rs.ret, FpOne)
      r1 == uj_lib_checknum(args, 1)
      r2 == uj_lib_checknum(args, 2)
  IN IF n > 0
     THEN IF ~r1.ok THEN Raised(rs)
          ELSE IF n = 1
               THEN Returned(rs, FAdd(FFloor(FMul(d, r1.n)), FpOne))
               ELSE IF ~r2.ok THEN Raised(rs)
                    ELSE Returned(rs, FAdd(FFloor(FMul(d,
                                      FAdd(FSub(r2.n, r1.n), FpOne))), r1.n))
     ELSE Returned(rs, d)

\* A variant of math_random that takes its arguments off the stack before it
\* touches the RandomState.
math_random_call_checked(rs0, args) ==
  IF \E k \in 1..2 : k <= Len(args) /\ ~uj_lib_checknum(args, k).ok
  THEN Raised(rs0)
  ELSE Shape(Advance(rs0), args)

math_random_call(rs0, args) == Shape(Advance(rs0), args)

\* A variant of math_randomseed that calls random_init before it takes the
\* argument off the stack.
math_randomseed_call_eager(rs, args) ==
  LET d == uj_lib_checknum(args, 1)
  IN IF ~d.ok THEN Raised(random_init(rs, FpZero, "randomseed"))
     ELSE Returned(random_init(rs, d.n, "randomseed"), NoValue)

math_randomseed_call(rs, args) ==
  LET d == uj_lib_checknum(args, 1)
  IN IF ~d.ok THEN Raised(rs)
     ELSE Returned(random_init(rs, d.n, "randomseed"), NoValue)

(***************************************************************************)
(* The state: the userdata objects allocated so far, the upvalue of the    *)
(* two closures of every module instance opened so far, and, as history,   *)
(* the last library call (out) and the number of library calls made.       *)
(***************************************************************************)
VARIABLES heap, lib, out, ncalls

vars == <<heap, lib, out, ncalls>>

\* The module instances: luaopen_math called in two Lua states.
Inst == {"A", "B"}

\* lua_newuserdata does not clear the memory: what gen holds before the
\* first random_init is whatever was there.
Garbage == {{}, AllOnes}

NotANumber == Str(<<"a", "b", "c">>)

\* The arguments of a call with the integers t.
Ints(t) == [k \in 1..Len(t) |-> Num(FromInt(t[k]))]

NoCall == [inst |-> "none", fn |-> "none", args |-> <<>>, err |-> "none",
           val |-> NoValue]

\* f with x mapped to v.
Store(f, x, v) == [y \in DOMAIN f \cup {x} |-> IF y = x THEN v ELSE f[y]]

\* A variant of lua_newuserdata: one object for all.
lua_newuserdata_shared(h) == 1

\* A new userdata object: an address no object has.
lua_newuserdata(h) == Cardinality(DOMAIN h) + 1

\* The RandomState of a new userdata: rs->valid = 0, the rest not written.
NewState(g) == [gen |-> [l \in Lanes |-> g], valid |-> FALSE,
                by |-> "none", d |-> {}, n |-> 0, j |-> 0, ret |-> {},
                cs |-> 0, ci |-> 0]

Init ==
  /\ heap = <<>>
  /\ lib = <<>>
  /\ out = NoCall
  /\ ncalls = 0

\* luaopen_math in the Lua state of instance i: the new userdata, with
\* valid = 0, becomes the upvalue of math.random and of math.randomseed.
luaopen_math(i) ==
  /\ i \notin DOMAIN lib
  /\ \E g \in Garbage :
       LET ud == lua_newuserdata(heap)
       IN /\ heap' = Store(heap, ud, NewState(g))
          /\ lib' = Store(lib, i, [random |-> ud, randomseed |-> ud])
  /\ UNCHANGED <<out, ncalls>>

\* A call of instance i's math.random or math.randomseed (fn), given what
\* the function does to the RandomState of its upvalue (res).
Call(i, fn, args, res) ==
  /\ heap' = [heap EXCEPT ![lib[i][fn]] = res.rs]
  /\ out' = [inst |-> i, fn |-> fn, args |-> args, err |-> res.err,
             val |-> res.val]
  /\ ncalls' = ncalls + 1
  /\ UNCHANGED lib

Entry(rs) == [rs EXCEPT !.cs = 0, !.ci = 0]

math_random(i, args) ==
  /\ i \in DOMAIN lib
  /\ Call(i, "random", args,
          math_random_call(Entry(heap[lib[i].random]), args))

math_randomseed(i, args) ==
  /\ i \in DOMAIN lib
  /\ Call(i, "randomseed", args,
          math_randomseed_call(Entry(heap[lib[i].randomseed]), args))

(***************************************************************************)
(* One module instance, called with every kind of argument.                *)
(***************************************************************************)
\* Library calls in a behaviour.
MaxCalls == 4

\* The seeds: 0.0, 1.0, the double d with d * pi + e = 0.0 (-0.8652559794322651),
\* a NaN and the two infinities.
SeedZeroLane == Hex(<<11,15,14,11,11,0,2,13,4,14,12,10,8,15,9,5>>)
Seeds == {FpZero, FpOne, SeedZeroLane, DefaultNaN, FpInf(FALSE), FpInf(TRUE)}

SeedArgs == {<<Num(d)>> : d \in Seeds} \cup {<<>>, <<NotANumber>>}
RandomArgs == {<<>>, Ints(<<6>>), Ints(<<1, 6>>) \o <<NotANumber>>,
               <<NotANumber>>, Ints(<<1>>) \o <<NotANumber>>}

Next ==
  \/ luaopen_math("A")
  \/ ncalls < MaxCalls /\ \E args \in RandomArgs : math_random("A", args)
  \/ ncalls < MaxCalls /\ \E args \in SeedArgs : math_randomseed("A", args)

Spec == Init /\ [][Next]_vars

(***************************************************************************)
(* Two module instances, their calls interleaved.                          *)
(***************************************************************************)
MaxPairCalls == 5

PairSeedArgs == {<<Num(FpZero)>>, <<Num(FpOne)>>}
PairRandomArgs == {<<>>}

NextPair ==
  \E i \in Inst :
    \/ luaopen_math(i)
    \/ ncalls < MaxPairCalls /\ \E args \in PairRandomArgs : math_random(i, args)
    \/ ncalls < MaxPairCalls /\ \E args \in PairSeedArgs : math_randomseed(i, args)

SpecPair == Init /\ [][NextPair]_vars

(***************************************************************************)
(* math.random on chosen states of one instance: a new one, the one        *)
(* random_init(0.0) leaves, and two states of the generator's cycle whose  *)
(* next digest has the 52 bits all set and all clear.  (Lane 0 of the two  *)
(* is the image under TW223_GEN of a state with non-zero upper 63 bits, so *)
(* it lies on the cycle of lane 0; the lane periods 2^63-1, 2^58-1,        *)
(* 2^55-1 and 2^47-1 are pairwise coprime, so some number of steps after   *)
(* random_init(0.0) reaches it together with the other three lanes.)       *)
(***************************************************************************)
MaxShapeCalls == 2

AfterSeedZero == random_init(NewState({}), FpZero, "randomseed")
DigestOnes == [AfterSeedZero EXCEPT
  !.gen[0] = Hex(<<11,12,7,8,4,0,0,3,13,8,8,15,12,14,6,2>>)]
DigestZero == [AfterSeedZero EXCEPT
  !.gen[0] = Hex(<<11,12,7,8,4,0,0,0,2,7,7,0,3,1,9,13>>)]
AfterSeedOne == random_init(NewState({}), FpOne, "randomseed")
ShapeStates == {NewState(AllOnes), AfterSeedZero, AfterSeedOne, DigestOnes,
                DigestZero}

\* Integer arguments: none, N, (r1, r2) with r1 <= r2, and r2 < r1, r1 < 1.
ShapeInts == {<<>>, <<1>>, <<6>>, <<7>>, <<1, 6>>, <<0 - 5, 5>>, <<3, 3>>,
              <<5, 1>>, <<0>>, <<0 - 3>>}
ShapeArgs == {Ints(t) : t \in ShapeInts} \cup
             {Ints(<<1, 6>>) \o <<NotANumber>>, <<Str(<<"3">>)>>}

InitShape ==
  /\ \E rs \in ShapeStates : heap = (1 :> rs)
  /\ lib = ("A" :> [random |-> 1, randomseed |-> 1])
  /\ out = NoCall
  /\ ncalls = 0

NextShape ==
  ncalls < MaxShapeCalls /\ \E args \in ShapeArgs : math_random("A", args)

SpecShape == InitShape /\ [][NextShape]_vars

(***************************************************************************)
(* Properties.  A step of a behaviour that increments ncalls is a library  *)
(* call: out' describes it, Before and After are the RandomState of its    *)
(* upvalue when it began and when it ended.                                *)
(***************************************************************************)
Ud(i) == lib[i].random
Called == ncalls' = ncalls + 1
Before == heap[lib[out'.inst][out'.fn]]
After == heap'[lib[out'.inst][out'.fn]]
Last == heap[lib[out.inst][out.fn]]

\* The PRNG State proper: the four gen words and the valid flag.
State(rs) == [gen |-> rs.gen, valid |-> rs.valid]

\* k of the four generators.
TopBits == (0 :> 63) @@ (1 :> 58) @@ (2 :> 55) @@ (3 :> 47)

\* C1 as claimed: a call of random that fails with ArgTypeError leaves the
\* four gen words and the valid flag exactly as they were before the call.
C1_FailedRandomLeavesState ==
  [][(Called /\ out'.fn = "random" /\ out'.err = "ArgTypeError")
     => State(After) = State(Before)]_vars

\* C1 amended: random called with an argument that cannot be coerced to a
\* number (the first, or the second) fails with ArgTypeError, but only after
\* the generator has advanced: the state afterwards is valid and is the one
\* a single Step Engine invocation leaves, run on the state before the call
\* or, on a fresh instance, on the state the Seeder leaves for d = 0.0; on a
\* valid instance the gen words differ from those before the call.
C1_FailedRandomAdvancesState ==
  [][(Called /\ out'.fn = "random" /\
      (\E k \in 1..2 : k <= Len(out'.args) /\ out'.args[k] = NotANumber))
     => /\ out'.err = "ArgTypeError"
        /\ After.valid
        /\ After.gen = lj_math_random_step(
                         IF Before.valid THEN Before
                         ELSE random_init(Before, FpZero, "random")).gen
        /\ After.cs = (IF Before.valid THEN 1 ELSE WarmupSteps + 1)
        /\ After.ci = (IF Before.valid THEN 0 ELSE 1)
        /\ Before.valid => After.gen # Before.gen]_vars

\* A bad second argument has failed a call of random on a state seeded before.
C1_Witness ==
  /\ out.fn = "random"
  /\ out.err = "ArgTypeError"
  /\ out.args = Ints(<<1>>) \o <<NotANumber>>
  /\ Last.by = "randomseed"
  /\ Last.ci = 0

C3_Range ==
  out.fn = "random" =>
    /\ 63 \notin Last.ret
    /\ FpExp(Last.ret) = 1023
    /\ FpFrac(Last.ret) = FpFrac(RunningXor(Last.gen))
    /\ out.args = <<>> =>
         /\ out.err = "none"
         /\ 63 \notin out.val
         /\ FpExp(out.val) < 1023
         /\ out.val = RoundPack(FALSE, FpFrac(Last.ret), 0 - 52)

\* random() has returned the largest value there is, 1 - 2^-52, from the
\* digest with the 52 bits all set.
C3_Witness ==
  /\ out.fn = "random"
  /\ out.args = <<>>
  /\ FpFrac(Last.ret) = 0..51
  /\ out.val = Hex(<<3,15,14,15,15,15,15,15,15,15,15,15,15,15,15,14>>)

\* The state randomseed(s) leaves a new instance in, for the seeds s of the
\* two instances.
Reseeded == (FpZero :> State(AfterSeedZero)) @@ (FpOne :> State(AfterSeedOne))

\* C4: after a successful randomseed(s) the four gen words are a function of
\* s alone, whatever the state before; two instances whose last successful
\* randomseed had the same s and that have called random equally often
\* since hold the same gen words and have drawn the same digest.
C4_SeedAlone ==
  /\ (out.fn = "randomseed" /\ out.err = "none")
       => State(Last) = Reseeded[out.args[1].n]
  /\ \A a, b \in DOMAIN heap :
       (/\ heap[a].by = "randomseed" /\ heap[b].by = "randomseed"
        /\ heap[a].d = heap[b].d /\ heap[a].j = heap[b].j)
       => heap[a].gen = heap[b].gen /\ heap[a].ret = heap[b].ret

\* Both instances were seeded with 1.0 and have drawn once since, and one of
\* them had been in use before it was seeded.
C4_Witness ==
  /\ DOMAIN lib = Inst
  /\ \A i \in Inst : /\ heap[Ud(i)].by = "randomseed"
                     /\ heap[Ud(i)].d = FpOne
                     /\ heap[Ud(i)].j = 1
  /\ ncalls = 5

\* C5: an instance seeded lazily by its first random and one seeded by
\* randomseed(0) are in the same state and have drawn the same digest after
\* equally many random calls; random invokes the Seeder (once, with 0.0) if
\* and only if valid is false, and not again once valid is true.
C5_LazyInit ==
  [][/\ \A a, b \in DOMAIN heap' :
          (/\ heap'[a].by = "random" /\ heap'[b].by = "randomseed"
           /\ heap'[b].d = FpZero /\ heap'[a].j = heap'[b].j)
          => /\ State(heap'[a]) = State(heap'[b])
             /\ heap'[a].ret = heap'[b].ret
     /\ (Called /\ out'.fn = "random")
          => /\ After.ci = (IF Before.valid THEN 0 ELSE 1)
             /\ Before.valid => After.by = Before.by /\ After.d = Before.d
             /\ ~Before.valid => After.by = "random"]_vars

\* One instance has drawn twice after randomseed(0), the other twice from new.
C5_Witness ==
  /\ DOMAIN lib = Inst
  /\ heap[Ud("A")].by = "random"
  /\ heap[Ud("B")].by = "randomseed"
  /\ heap[Ud("B")].d = FpZero
  /\ heap[Ud("A")].j = 2
  /\ heap[Ud("B")].j = 2

\* C6: every instance has one RandomState, the upvalue of both its random
\* and its randomseed and of no other instance's, and a call on one
\* instance (or the opening of one) leaves the gen words and the valid flag
\* of every other instance unchanged.
C6_Ownership ==
  [][/\ \A i \in DOMAIN lib' :
          /\ lib'[i].random = lib'[i].randomseed
          /\ lib'[i].random \in DOMAIN heap'
          /\ \A k \in DOMAIN lib' \ {i} : lib'[k].random # lib'[i].random
     /\ Cardinality(DOMAIN heap') = Cardinality(DOMAIN lib')
     /\ Called => \A i \in DOMAIN lib \ {out'.inst} :
                    State(heap'[Ud(i)]) = State(heap[Ud(i)])
     /\ ~Called => \A i \in DOMAIN lib : State(heap'[Ud(i)]) = State(heap[Ud(i)])
    ]_vars

\* The instances hold different states, each seeded by its own randomseed,
\* and the one called last has drawn since.
C6_Witness ==
  /\ DOMAIN lib = Inst
  /\ heap[Ud("A")].by = "randomseed"
  /\ heap[Ud("B")].by = "randomseed"
  /\ heap[Ud("A")].d # heap[Ud("B")].d
  /\ out.fn = "random"
  /\ heap[Ud("A")].gen # heap[Ud("B")].gen

\* C7: randomseed with no argument or with one that cannot be coerced to a
\* number fails with ArgTypeError, the Seeder is not invoked, and the gen
\* words and the valid flag are unchanged.
C7_FailedSeedLeavesState ==
  [][(Called /\ out'.fn = "randomseed" /\
      (out'.args = <<>> \/ out'.args = <<NotANumber>>))
     => /\ out'.err = "ArgTypeError"
        /\ State(After) = State(Before)
        /\ After.ci = 0
        /\ After.cs = 0]_vars

\* randomseed() has failed on an instance that had drawn from its seed.
C7_Witness ==
  /\ out.fn = "randomseed"
  /\ out.args = <<>>
  /\ out.err = "ArgTypeError"
  /\ Last.valid
  /\ Last.j >= 1

\* The low 52 bits of the digest / 2^52.
D0(ret) == RoundPack(FALSE, FpFrac(ret), 0 - 52)

\* The doubles of the integers lo..hi.
Range(lo, hi) == {FromInt(v) : v \in lo..hi}

\* C8: random(N), N >= 1, is floor(d0 * N) + 1 and one of 1..N; random(r1,
\* r2), r1 <= r2, is floor(d0 * (r2 - r1 + 1)) + r1 and one of r1..r2 (so
\* random(1, N) is one of 1..N); arguments after the second are ignored;
\* r2 < r1 and r1 < 1 raise no error.
C8_Shaping ==
  [][(Called /\ out'.fn = "random") =>
     /\ \A t \in ShapeInts : out'.args = Ints(t) =>
          /\ out'.err = "none"
          /\ out'.val # NoValue
          /\ (Len(t) = 1 /\ t[1] >= 1) =>
               /\ out'.val \in Range(1, t[1])
               /\ out'.val = FAdd(FFloor(FMul(D0(After.ret), FromInt(t[1]))),
                                  FpOne)
          /\ (Len(t) = 2 /\ t[1] <= t[2]) =>
               /\ out'.val \in Range(t[1], t[2])
               /\ out'.val = FAdd(FFloor(FMul(D0(After.ret),
                                              FromInt(t[2] - t[1] + 1))),
                                  FromInt(t[1]))
     /\ out'.args = Ints(<<1, 6>>) \o <<NotANumber>> =>
          /\ out'.err = "none"
          /\ out'.val = math_random_call(Entry(Before), Ints(<<1, 6>>)).val
    ]_vars

\* random(1, 6) has returned 6, from the digest with the 52 bits all set.
C8_Witness ==
  /\ out.fn = "random"
  /\ out.args = Ints(<<1, 6>>)
  /\ FpFrac(Last.ret) = 0..51
  /\ out.val = FromInt(6)

RECURSIVE Orbit(_, _)
\* rs and the states count successive calls of lj_math_random_step go through.
Orbit(rs, count) ==
  IF count = 0 THEN <<rs>>
  ELSE Value({<<rs>> \o Orbit(nx, count - 1) : nx \in {lj_math_random_step(rs)}})

\* For every seed, the lanes as the loop of random_init assigns them and the
\* states the Step Engine then goes through.
Orbits == {[d |-> d,
            at |-> Orbit([NewState({}) EXCEPT
                            !.gen = SeedLoop(NewState({}).gen, SeedShifts, d, 0)],
                         WarmupSteps + MaxCalls)] : d \in Seeds}
OrbitOf(d) == (CHOOSE o \in Orbits : o.d = d).at

\* C9: a random call invokes the Step Engine once on a valid state, whatever
\* its arguments, and the Seeder and eleven steps on a state not valid; a
\* successful randomseed invokes the Seeder once and ten steps; the state
\* after the j-th random call since the lanes were assigned from the double
\* d, and the digest its value derives from, are those of step 10 + j.
C9_StepAccounting ==
  [][/\ (Called /\ out'.fn = "random")
          => /\ After.cs = (IF Before.valid THEN 1 ELSE WarmupSteps + 1)
             /\ After.ci = (IF Before.valid THEN 0 ELSE 1)
             /\ After.n = WarmupSteps + After.j
             /\ After.j = (IF Before.valid THEN Before.j + 1 ELSE 1)
             /\ After.gen = OrbitOf(After.d)[After.n + 1].gen
             /\ After.ret = OrbitOf(After.d)[After.n + 1].ret
             /\ out'.args = <<>> => out'.val = FSub(After.ret, FpOne)
     /\ (Called /\ out'.fn = "randomseed" /\ out'.err = "none")
          => /\ After.cs = WarmupSteps
             /\ After.ci = 1
             /\ After.j = 0
             /\ After.gen = OrbitOf(After.d)[WarmupSteps + 1].gen]_vars

\* The third random call after a randomseed, with three arguments.
C9_Witness ==
  /\ out.fn = "random"
  /\ Len(out.args) = 3
  /\ Last.by = "randomseed"
  /\ Last.j = 3
  /\ Last.n = 13

\* C10: valid is false when the module is constructed; a randomseed call
\* that returns leaves valid true, whatever the number; no call sets valid
\* back to false.
C10_ValidLifecycle ==
  [][/\ \A i \in DOMAIN lib' \ DOMAIN lib : ~heap'[lib'[i].random].valid
     /\ (Called /\ out'.fn = "randomseed" /\ out'.err = "none") => After.valid
     /\ \A u \in DOMAIN heap : heap[u].valid => heap'[u].valid]_vars

\* randomseed(NaN) has returned and left the state valid.
C10_Witness ==
  /\ out.fn = "randomseed"
  /\ out.args = <<Num(DefaultNaN)>>
  /\ out.err = "none"
  /\ Last.valid
=============================================================================
